---- MODULE Spec2Model ----
(***************************************************************************)
(* A model of the canvas-visual Power BI plugin (src/src/visual.ts) and of *)
(* the stand-alone WebGLRenderer (src/src/renderers/svgRenderer.ts).       *)
(*                                                                         *)
(* Representation of JavaScript values:                                    *)
(*   - an optional value (undefined / null versus present) is a sequence   *)
(*     of length 0 or 1: <<>> is absent, <<v>> is v;                       *)
(*   - numbers are integers; the viewports are chosen so that every        *)
(*     division the code performs on them is exact;                        *)
(*   - angles are integers in units of 1/FullCircle of a turn (2*pi).      *)
(***************************************************************************)
EXTENDS Integers, Sequences, FiniteSets, TLC

VARIABLES
    gl,             \* Visual.gl: <<>> when no context was acquired, <<"webgl">> otherwise
    fallbackTexts,  \* number of 'webgl-text' fallback elements in webglContainer
    canvasSize,     \* Visual.canvas width/height: <<>> (never assigned) or <<w, h>>
    svgSize,        \* width/height attributes of Visual.svg
    webglSize,      \* Visual.webglCanvas width/height
    bars,           \* what is painted on the bar canvas
    donut,          \* children of Visual.svgGroup: [arcs, labels, legend]
    glLog,          \* graphics commands issued by the last renderWebGLText call
    trace,          \* calls made by the last update, in order
    threw,          \* the last update ended in an exception
    lastDataPoints, \* the DataPoint list extracted by the last update
    lastCall,       \* <<>> before the first update, else <<options>> of the last one
    rendererGl,     \* WebGLRenderer.gl
    rendererLog,    \* graphics commands issued by the last WebGLRenderer.render call
    colorArg,       \* adjustColorBrightness taken alone: its color argument
    amountArg,      \* its amount argument
    colorResult     \* <<>> before the call, else <<[adjusted, restored]>>

colorVars == <<colorArg, amountArg, colorResult>>

vars == <<gl, fallbackTexts, canvasSize, svgSize, webglSize, bars, donut, glLog,
          trace, threw, lastDataPoints, lastCall, rendererGl, rendererLog,
          colorArg, amountArg, colorResult>>

----------------------------------------------------------------------------
(* Bounds of the model *)

MaxLen == 2
MaxVal == 2
MaxAmount == 3

----------------------------------------------------------------------------
(* JavaScript values *)

Undefined == <<>>

Num(n) == <<n>>

IsNum(v) == Len(v) = 1

NumOf(v) == v[1]

Min(a, b) == IF a <= b THEN a ELSE b

RECURSIVE SeqOfLen(_, _)
SeqOfLen(S, n) ==
    IF n = 0 THEN {<<>>}
    ELSE {Append(s, x) : s \in SeqOfLen(S, n - 1), x \in S}

SeqUpTo(S, n) == UNION {SeqOfLen(S, k) : k \in 0..n}

----------------------------------------------------------------------------
(* Inputs supplied by the host *)

\* options.viewport, as <<width, height>>
Viewports == {<<900, 400>>, <<600, 300>>, <<30, 400>>, <<900, 60>>}

CategoryLabels == {"A", "B"}

\* categorical.categories[0].values
CategoryArrays == SeqUpTo(CategoryLabels, MaxLen)

\* categorical.values[0].values: measures from -1 to MaxVal
MeasureArrays == SeqUpTo((0 - 1)..MaxVal, MaxLen)

Column(vs) == [values |-> vs]

Categoricals ==
    [categories : {<<>>} \cup {<<Column(c)>> : c \in CategoryArrays},
     values     : {<<>>} \cup {<<Column(m)>> : m \in MeasureArrays}]

\* options.dataViews: absent or empty (<<>>), or one data view whose
\* categorical part is absent or present
DataViewLists ==
    {<<>>} \cup {<<[categorical |-> <<>>]>>}
           \cup {<<[categorical |-> <<c>>]>> : c \in Categoricals}

DataView(cats, measures) ==
    <<[categorical |-> <<[categories |-> cats, values |-> measures]>>]>>

\* The data views the host sends over the life of one instance: no data in
\* its several forms, the 10/20/30 example, an all-zero measure column, an
\* unsorted column, and columns of unequal length.
HostDataViews ==
    {<<>>,
     <<[categorical |-> <<>>]>>,
     DataView(<<>>, <<Column(<<10, 20, 30>>)>>),
     DataView(<<Column(<<"A", "B", "C">>)>>, <<>>),
     DataView(<<Column(<<>>)>>, <<Column(<<>>)>>),
     DataView(<<Column(<<"A", "B", "C">>)>>, <<Column(<<10, 20, 30>>)>>),
     DataView(<<Column(<<"A", "B">>)>>, <<Column(<<0, 0>>)>>),
     DataView(<<Column(<<"B", "A">>)>>, <<Column(<<2, 1>>)>>),
     DataView(<<Column(<<"A", "B">>)>>, <<Column(<<5>>)>>),
     DataView(<<Column(<<"A">>)>>, <<Column(<<1, 2>>)>>)}

\* host.colorPalette.getColor(key).value: a colour '#rrggbb' is the sequence
\* of its six hexadecimal digits
PaletteColor(key) ==
    CASE key = "0" -> <<1, 1, 9, 9, 14, 6>>
      [] key = "1" -> <<15, 15, 5, 7, 2, 2>>
      [] key = "2" -> <<2, 1, 9, 6, 15, 3>>
      [] OTHER     -> <<9, 9, 9, 9, 9, 9>>

----------------------------------------------------------------------------
(* Visual.getDataPoints *)

getDataPoints(dataView) ==
    LET categorical == dataView.categorical[1]
        categories  == categorical.categories
        values      == categorical.values
    IN  IF categories = <<>> \/ values = <<>>
        THEN <<>>
        ELSE [i \in 1..Len(categories[1].values) |->
                [category |-> categories[1].values[i],
                 value    |-> IF i <= Len(values[1].values)
                              THEN Num(values[1].values[i])
                              ELSE Undefined,
                 color    |-> PaletteColor(ToString(i - 1))]]

----------------------------------------------------------------------------
(* Visual.adjustColorBrightness *)

\* parseInt(digits, 16)
RECURSIVE parseInt16(_)
parseInt16(digits) ==
    IF digits = <<>> THEN 0
    ELSE 16 * parseInt16(SubSeq(digits, 1, Len(digits) - 1)) + digits[Len(digits)]

\* n.toString(16)
RECURSIVE toString16(_)
toString16(n) ==
    IF n < 16 THEN <<n>> ELSE Append(toString16(n \div 16), n % 16)

\* s.padStart(len, '0')
RECURSIVE padStart0(_, _)
padStart0(s, len) ==
    IF Len(s) >= len THEN s ELSE padStart0(<<0>> \o s, len)

Clamp255(x) == IF x < 0 THEN 0 ELSE IF x > 255 THEN 255 ELSE x

\* adjustColorBrightness without the '& 0x00FF' mask on the green channel
adjustColorBrightnessNoMask(color, amount) ==
    LET num == parseInt16(color)
        r   == Clamp255((num \div 65536) + amount)
        g   == Clamp255((num \div 256) + amount)
        b   == Clamp255((num % 256) + amount)
    IN  padStart0(toString16(r * 65536 + g * 256 + b), 6)

adjustColorBrightness(color, amount) ==
    LET num == parseInt16(color)
        r   == Clamp255((num \div 65536) + amount)
        g   == Clamp255(((num \div 256) % 256) + amount)
        b   == Clamp255((num % 256) + amount)
    IN  padStart0(toString16(r * 65536 + g * 256 + b), 6)

----------------------------------------------------------------------------
(* Visual.renderCanvasBarChart *)

margin == [top |-> 30, right |-> 20, bottom |-> 50, left |-> 50]

\* d.value.toFixed(0) of an integer-valued number
toFixed0(v) == NumOf(v)

\* index of the first data point whose value is undefined, Len + 1 if none:
\* undefined.toFixed throws a TypeError there
FirstUndefined(dataPoints) ==
    LET bad == {i \in 1..Len(dataPoints) : ~IsNum(dataPoints[i].value)}
    IN  IF bad = {} THEN Len(dataPoints) + 1
        ELSE CHOOSE i \in bad : \A j \in bad : i <= j

\* d3.max(dataPoints, d => d.value): undefined entries are skipped
d3max(dataPoints) ==
    LET defined == {NumOf(dataPoints[i].value) :
                      i \in {j \in 1..Len(dataPoints) : IsNum(dataPoints[j].value)}}
    IN  IF defined = {} THEN Undefined
        ELSE Num(CHOOSE m \in defined : \A x \in defined : x <= m)

\* d3.max(...) without the '|| 1' fallback, an absent maximum counted as 0
maxValueNoFallback(dataPoints) ==
    LET m == d3max(dataPoints)
    IN  IF IsNum(m) THEN NumOf(m) ELSE 0

\* d3.max(...) || 1
maxValueOf(dataPoints) ==
    LET m == d3max(dataPoints)
    IN  IF IsNum(m) /\ NumOf(m) # 0 THEN NumOf(m) ELSE 1

\* One painted bar; barHeight = (value / maxValue) * chartHeight is kept as
\* the exact fraction num / den.
Bar(d, i, maxValue, chartHeight) ==
    [slot      |-> i - 1,
     category  |-> d.category,
     label     |-> toFixed0(d.value),
     barHeight |-> [num |-> NumOf(d.value) * chartHeight, den |-> maxValue],
     colorTop  |-> d.color,
     colorEnd  |-> adjustColorBrightness(d.color, 0 - 30)]

\* Result: the bars on the canvas after the call, and whether it threw.
renderCanvasBarChart(dataPoints, width, height) ==
    LET chartWidth  == width - margin.left - margin.right
        chartHeight == height - margin.top - margin.bottom
        maxValue    == maxValueOf(dataPoints)
        stop        == FirstUndefined(dataPoints)
    IN  IF chartWidth <= 0 \/ chartHeight <= 0
        THEN [bars |-> <<>>, threw |-> FALSE]
        ELSE [bars  |-> [i \in 1..(stop - 1) |->
                            Bar(dataPoints[i], i, maxValue, chartHeight)],
              threw |-> stop <= Len(dataPoints)]

----------------------------------------------------------------------------
(* Visual.renderSVGDonutChart *)

\* One turn (2 * pi) in angle units; every sum of measures the model can
\* produce divides it, so that the divisions of the pie layout are exact.
FullCircle == 16 * 9 * 5 * 7 * 11 * 13

\* +d.value > 0 ? +d.value : 0  (undefined converts to NaN, NaN > 0 is false)
PositivePart(v) == IF IsNum(v) /\ NumOf(v) > 0 THEN NumOf(v) ELSE 0

\* sum of the positive values of the first n data points
RECURSIVE SumPositive(_, _)
SumPositive(dataPoints, n) ==
    IF n = 0 THEN 0
    ELSE SumPositive(dataPoints, n - 1) + PositivePart(dataPoints[n].value)

\* the order in which d3.pie hands out the angles with .sort(null): input order
InputOrder(dataPoints) == [i \in 1..Len(dataPoints) |-> i]

\* d3.pie().value(d => d.value).sort(null)(dataPoints): order[r] is the data
\* point that receives the r-th span; arc i belongs to data point i
pieLayout(dataPoints, order) ==
    LET n    == Len(dataPoints)
        sum  == SumPositive(dataPoints, n)
        k    == IF sum # 0 THEN FullCircle \div sum ELSE 0
        rank(i) == CHOOSE r \in 1..n : order[r] = i
        before(i) == SumPositive([r \in 1..(rank(i) - 1) |-> dataPoints[order[r]]],
                                 rank(i) - 1)
    IN  [i \in 1..n |->
            [data       |-> dataPoints[i],
             index      |-> i - 1,
             value      |-> dataPoints[i].value,
             startAngle |-> k * before(i),
             endAngle   |-> k * before(i) + k * PositivePart(dataPoints[i].value)]]

\* the order d3.pie uses when .sort(null) is left out: by descending value
DescendingOrder(dataPoints) ==
    LET n    == Len(dataPoints)
        v(i) == PositivePart(dataPoints[i].value)
    IN  CHOOSE f \in [1..n -> 1..n] :
            /\ \A a, b \in 1..n : a # b => f[a] # f[b]
            /\ \A a, b \in 1..n :
                  a < b => \/ v(f[a]) > v(f[b])
                           \/ (v(f[a]) = v(f[b]) /\ f[a] < f[b])

pieSortedByValue(dataPoints) == pieLayout(dataPoints, DescendingOrder(dataPoints))

pie(dataPoints) == pieLayout(dataPoints, InputOrder(dataPoints))

\* Result: the children of svgGroup after the call, and whether it threw.
\* The paths are appended for all arcs before the first label text is
\* computed; the legend is built after the labels.  outerRadius is the outer
\* radius of the path's 'd' attribute, or the one its running transition ends
\* at; arcOuter and hoverOuter are the outer radii of the generators arc and
\* arcHover that the path's two handlers close over.
renderSVGDonutChart(dataPoints, width, height) ==
    LET radius      == (Min(width, height) \div 2) - 40
        innerRadius == (radius * 6) \div 10
        layout      == pie(dataPoints)
        stop        == FirstUndefined(dataPoints)
        arcs        == [i \in 1..Len(layout) |->
                          [datum       |-> layout[i],
                           fill        |-> layout[i].data.color,
                           innerRadius |-> innerRadius,
                           outerRadius |-> radius,
                           arcOuter    |-> radius,
                           hoverOuter  |-> radius + 10]]
        labels      == [i \in 1..(stop - 1) |-> toFixed0(layout[i].data.value)]
        legend      == [i \in 1..Len(dataPoints) |->
                          [y    |-> (i - 1) * 25,
                           fill |-> dataPoints[i].color,
                           text |-> [category |-> dataPoints[i].category,
                                     value    |-> toFixed0(dataPoints[i].value)]]]
    IN  IF stop <= Len(dataPoints)
        THEN [donut |-> [arcs |-> arcs, labels |-> labels, legend |-> <<>>],
              threw |-> TRUE]
        ELSE [donut |-> [arcs |-> arcs, labels |-> labels, legend |-> legend],
              threw |-> FALSE]

----------------------------------------------------------------------------
(* Visual.renderWebGLText and WebGLRenderer *)

NoContext == <<>>

\* the graphics commands of one complete placeholder draw
DrawCommands ==
    <<"viewport", "clearColor", "clear", "compileShader", "compileShader",
      "linkProgram", "useProgram", "bufferData", "drawArrays">>

\* renderWebGLText without its guard on the context
renderWebGLTextUnguarded(g) == DrawCommands

\* Visual.renderWebGLText: the commands it issues on context g
renderWebGLText(g) ==
    IF g = NoContext THEN <<>> ELSE DrawCommands

\* WebGLRenderer.isSupported
isSupported(g) == g # NoContext

\* WebGLRenderer.render: the commands it issues on context g; created tells
\* whether createShader / createProgram returned objects
render(g, created) ==
    IF g = NoContext THEN <<>>
    ELSE IF ~created THEN SubSeq(DrawCommands, 1, 3)
    ELSE DrawCommands

----------------------------------------------------------------------------
(* Construction *)

\* what canvas.getContext('webgl') || canvas.getContext('experimental-webgl')
\* can return: null or a context
Contexts == {NoContext, <<"webgl">>}

EmptyDonut == [arcs |-> <<>>, labels |-> <<>>, legend |-> <<>>]

\* Visual.constructor: glContext is the outcome of the context acquisition
Construct(glContext) ==
    /\ gl = glContext
    /\ fallbackTexts = IF glContext = NoContext THEN 1 ELSE 0
    /\ canvasSize = <<>>
    /\ svgSize = <<>>
    /\ webglSize = <<>>
    /\ bars = <<>>
    /\ donut = EmptyDonut

\* WebGLRenderer.constructor
ConstructRenderer(glContext) ==
    /\ rendererGl = glContext
    /\ rendererLog = <<>>

\* the two objects right after their construction
Constructed ==
    /\ \E glContext \in Contexts : Construct(glContext)
    /\ \E glContext \in Contexts : ConstructRenderer(glContext)
    /\ glLog = <<>>
    /\ trace = <<>>
    /\ threw = FALSE
    /\ lastDataPoints = <<>>
    /\ lastCall = <<>>

Init ==
    /\ Constructed
    /\ colorArg = <<>>
    /\ amountArg = 0
    /\ colorResult = <<>>

----------------------------------------------------------------------------
(* Visual.update *)

\* the early returns of update: nothing but the formatting settings changes
UpdateReturnsEarly(options, points) ==
    /\ trace' = <<>>
    /\ glLog' = <<>>
    /\ threw' = FALSE
    /\ lastDataPoints' = points
    /\ lastCall' = <<options>>
    /\ UNCHANGED <<gl, fallbackTexts, canvasSize, svgSize, webglSize, bars, donut,
                   rendererGl, rendererLog, colorVars>>

\* the rest of update, once the data point list is known to be non-empty
UpdateRenders(options, points) ==
    LET viewport     == options.viewport
        thirdWidth   == viewport.width \div 3
        titleHeight  == 40
        canvasWidth  == thirdWidth - 20
        canvasHeight == viewport.height - titleHeight - 20
        svgWidth     == thirdWidth - 20
        svgHeight    == viewport.height - titleHeight - 20
        webglWidth   == thirdWidth - 20
        webglHeight  == viewport.height - titleHeight - 20
        bar          == renderCanvasBarChart(points, canvasWidth, canvasHeight)
        svg          == renderSVGDonutChart(points, svgWidth, svgHeight)
    IN  /\ canvasSize' = <<canvasWidth, canvasHeight>>
        /\ svgSize' = <<svgWidth, svgHeight>>
        /\ webglSize' = <<webglWidth, webglHeight>>
        /\ bars' = bar.bars
        /\ lastDataPoints' = points
        /\ lastCall' = <<options>>
        /\ IF bar.threw
           THEN /\ trace' = <<"renderCanvasBarChart">>
                /\ threw' = TRUE
                /\ glLog' = <<>>
                /\ UNCHANGED donut
           ELSE /\ donut' = svg.donut
                /\ IF svg.threw
                   THEN /\ trace' = <<"renderCanvasBarChart", "renderSVGDonutChart">>
                        /\ threw' = TRUE
                        /\ glLog' = <<>>
                   ELSE /\ trace' = <<"renderCanvasBarChart", "renderSVGDonutChart",
                                      "renderWebGLText">>
                        /\ threw' = FALSE
                        /\ glLog' = renderWebGLText(gl)
        /\ UNCHANGED <<gl, fallbackTexts, rendererGl, rendererLog, colorVars>>

\* Visual.update(options)
update(options) ==
    IF options.dataViews = <<>> \/ options.dataViews[1].categorical = <<>>
    THEN UpdateReturnsEarly(options, <<>>)
    ELSE LET points == getDataPoints(options.dataViews[1])
         IN  IF Len(points) = 0
             THEN UpdateReturnsEarly(options, points)
             ELSE UpdateRenders(options, points)

Options(viewport, dataViews) ==
    [viewport  |-> [width |-> viewport[1], height |-> viewport[2]],
     dataViews |-> dataViews]

\* the host calls update, any number of times
Update ==
    \E viewport \in Viewports, dataViews \in HostDataViews :
        update(Options(viewport, dataViews))

\* the first update after construction, over all the bounded data views
FirstUpdate ==
    /\ lastCall = <<>>
    /\ \E viewport \in Viewports, dataViews \in DataViewLists :
           update(Options(viewport, dataViews))

----------------------------------------------------------------------------
(* The pointer handlers of the donut paths *)

\* a handler that restyles every path instead of the one under the pointer
mouseoverEveryPath(arcs, i) ==
    [j \in 1..Len(arcs) |-> [arcs[j] EXCEPT !.outerRadius = arcs[j].hoverOuter]]

\* on('mouseover'): the path under the pointer starts a transition to arcHover
mouseover(arcs, i) ==
    [arcs EXCEPT ![i].outerRadius = arcs[i].hoverOuter]

\* on('mouseout'): the path the pointer left starts a transition back to arc
mouseout(arcs, i) ==
    [arcs EXCEPT ![i].outerRadius = arcs[i].arcOuter]

HoverUnchanged ==
    UNCHANGED <<gl, fallbackTexts, canvasSize, svgSize, webglSize, bars, glLog,
                trace, threw, lastDataPoints, lastCall, rendererGl, rendererLog,
                colorVars>>

MouseOverPath(i) ==
    /\ i \in 1..Len(donut.arcs)
    /\ donut' = [donut EXCEPT !.arcs = mouseover(donut.arcs, i)]
    /\ HoverUnchanged

MouseOutPath(i) ==
    /\ i \in 1..Len(donut.arcs)
    /\ donut' = [donut EXCEPT !.arcs = mouseout(donut.arcs, i)]
    /\ HoverUnchanged

MouseOver == \E i \in 1..Len(donut.arcs) : MouseOverPath(i)

MouseOut == \E i \in 1..Len(donut.arcs) : MouseOutPath(i)

----------------------------------------------------------------------------
(* WebGLRenderer.render *)

RendererRender ==
    /\ \E created \in BOOLEAN : rendererLog' = render(rendererGl, created)
    /\ UNCHANGED <<gl, fallbackTexts, canvasSize, svgSize, webglSize, bars, donut,
                   glLog, trace, threw, lastDataPoints, lastCall, rendererGl,
                   colorVars>>

----------------------------------------------------------------------------

Next == Update \/ RendererRender

Spec == Init /\ [][Next]_vars

\* one update from the constructed state, over every bounded input
SpecFirst == Init /\ [][FirstUpdate]_vars

\* one such update, then the pointer entering and leaving the donut paths in
\* any order
NextHover == FirstUpdate \/ MouseOver \/ MouseOut

SpecHover == Init /\ [][NextHover]_vars

----------------------------------------------------------------------------
(* adjustColorBrightness taken alone *)

\* the channel values tried: both ends of the byte range and its middle
ChannelSamples == {0, 1, 2, 128, 253, 254, 255}

\* the colour '#rrggbb' of three channel values
HexColor(r, g, b) ==
    <<r \div 16, r % 16, g \div 16, g % 16, b \div 16, b % 16>>

HexColors == {HexColor(r, g, b) : r \in ChannelSamples, g \in ChannelSamples,
                                   b \in ChannelSamples}

\* the amounts tried: the small ones, the -30 of the bar gradient, and
\* amounts at and beyond the whole byte range
Amounts ==
    ((0 - MaxAmount)..MaxAmount) \cup {0 - 256, 0 - 255, 0 - 30, 30, 255, 256}

InitColor ==
    /\ Constructed
    /\ colorArg \in HexColors
    /\ amountArg \in Amounts
    /\ colorResult = <<>>

\* adjustColorBrightness(color, amount), and the result adjusted by -amount
AdjustColor ==
    /\ colorResult = <<>>
    /\ LET adjusted == adjustColorBrightness(colorArg, amountArg)
       IN  colorResult' =
             <<[adjusted |-> adjusted,
                restored |-> adjustColorBrightness(adjusted, 0 - amountArg)]>>
    /\ UNCHANGED <<gl, fallbackTexts, canvasSize, svgSize, webglSize, bars, donut,
                   glLog, trace, threw, lastDataPoints, lastCall, rendererGl,
                   rendererLog, colorArg, amountArg>>

SpecColor == InitColor /\ [][AdjustColor]_vars

----------------------------------------------------------------------------
(* Vocabulary of the properties *)

Range(s) == {s[i] : i \in 1..Len(s)}

Updated == lastCall # <<>>

LastOptions == lastCall[1]

Renderers == {"renderCanvasBarChart", "renderSVGDonutChart", "renderWebGLText"}

\* The last update had nothing to draw from: no data view, no categorical
\* data, a missing category or value array, or an empty data point list.
NoDataUpdate ==
    /\ Updated
    /\ \/ LastOptions.dataViews = <<>>
       \/ LastOptions.dataViews[1].categorical = <<>>
       \/ LastOptions.dataViews[1].categorical[1].categories = <<>>
       \/ LastOptions.dataViews[1].categorical[1].values = <<>>
       \/ lastDataPoints = <<>>

NonPositive(size) == size # <<>> /\ (size[1] <= 0 \/ size[2] <= 0)

----------------------------------------------------------------------------
(* C1 .. C10 *)

\* C1: every update that returns normally has invoked the placeholder
\* renderer renderWebGLText, whatever the data views hold, and has drawn the
\* placeholder shape when a graphics context exists.
C1_PlaceholderAlwaysInvoked ==
    (Updated /\ ~threw) =>
        /\ "renderWebGLText" \in Range(trace)
        /\ (gl # NoContext => "drawArrays" \in Range(glLog))

\* C2: after a no-data update the bar surface and the donut surface are
\* empty: nothing drawn by an earlier update remains on them.
C2_NoDataLeavesSurfacesCleared ==
    NoDataUpdate => (bars = <<>> /\ donut = EmptyDonut)

\* C3: every update signals renderingStarted to the host before it invokes
\* any of the three renderers.
C3_RenderStartBeforeRenderers ==
    Updated =>
        \E i \in 1..Len(trace) :
            /\ trace[i] = "renderingStarted"
            /\ \A j \in 1..(i - 1) : trace[j] \notin Renderers

\* C4: every update schedules exactly one render-finish signal for a later
\* display-refresh callback, after its renderers, and does not signal
\* renderingFinished inside the call.
C4_RenderFinishDeferred ==
    Updated =>
        /\ Cardinality({i \in 1..Len(trace) : trace[i] = "requestAnimationFrame"}) = 1
        /\ "renderingFinished" \notin Range(trace)
        /\ \A i, j \in 1..Len(trace) :
              (trace[i] = "requestAnimationFrame" /\ trace[j] \in Renderers) => j < i

\* C5: after every update with viewport (W, H), whatever the data, each of
\* the three surfaces is W/3 - 20 wide and H - 40 - 20 high.
C5_SurfacesSizedFromViewport ==
    Updated =>
        LET W == LastOptions.viewport.width
            H == LastOptions.viewport.height
            expected == <<(W \div 3) - 20, H - 40 - 20>>
        IN  /\ canvasSize = expected
            /\ svgSize = expected
            /\ webglSize = expected
            /\ 3 * expected[1] <= W

\* C6: for a data view with a category array and a measure array, the data
\* point list is as long as the shorter of the two, and point i pairs
\* category[i] with measure[i] and the palette colour of the string form of i.
C6_DataPointsPairShorterArray ==
    (/\ Updated
     /\ LastOptions.dataViews # <<>>
     /\ LastOptions.dataViews[1].categorical # <<>>
     /\ LastOptions.dataViews[1].categorical[1].categories # <<>>
     /\ LastOptions.dataViews[1].categorical[1].values # <<>>) =>
        LET cats     == LastOptions.dataViews[1].categorical[1].categories[1].values
            measures == LastOptions.dataViews[1].categorical[1].values[1].values
        IN  /\ Len(lastDataPoints) = Min(Len(cats), Len(measures))
            /\ \A i \in 1..Len(lastDataPoints) :
                  /\ i <= Len(cats) /\ lastDataPoints[i].category = cats[i]
                  /\ i <= Len(measures) /\ lastDataPoints[i].value = Num(measures[i])
                  /\ lastDataPoints[i].color = PaletteColor(ToString(i - 1))

\* C7: a surface whose computed width or height is zero or negative shows
\* nothing: no bar on the bar canvas, no arc, label or legend row in the donut.
C7_NonPositiveSizeOnlyClears ==
    /\ NonPositive(canvasSize) => bars = <<>>
    /\ NonPositive(svgSize) => donut = EmptyDonut

\* C8: no update ends in an exception.
C8_UpdateNeverThrows == ~threw

\* C9: without a graphics context, isSupported is false, no render call
\* issues a graphics command, the context is never acquired later, and the
\* fallback message is there exactly once.
C9_NoContextIsInert ==
    /\ [](gl = NoContext => (glLog = <<>> /\ fallbackTexts = 1))
    /\ [](rendererGl = NoContext =>
            (~isSupported(rendererGl) /\ rendererLog = <<>>))
    /\ [][gl = NoContext => (gl' = NoContext /\ fallbackTexts' = fallbackTexts)]_vars
    /\ [][rendererGl = NoContext => rendererGl' = NoContext]_vars

\* an update ran renderWebGLText on an instance that has no context
C9_Witness ==
    /\ gl = NoContext
    /\ "renderWebGLText" \in Range(trace)
    /\ glLog = <<>>
    /\ rendererGl = NoContext

AllPositive(points) ==
    \A i \in 1..Len(points) : IsNum(points[i].value) /\ NumOf(points[i].value) > 0

RECURSIVE TotalValue(_, _)
TotalValue(points, n) ==
    IF n = 0 THEN 0 ELSE TotalValue(points, n - 1) + NumOf(points[n].value)

\* C10: for a non-empty data point list with all-positive values, arc i is the
\* arc of point i, its span is FullCircle * value_i / total, the arcs follow
\* one another in input order from angle 0, and they end at the full circle.
C10_DonutSpansProportional ==
    (Updated /\ ~threw /\ lastDataPoints # <<>> /\ AllPositive(lastDataPoints)) =>
        LET n     == Len(lastDataPoints)
            total == TotalValue(lastDataPoints, n)
            a(i)  == donut.arcs[i].datum
        IN  /\ Len(donut.arcs) = n
            /\ a(1).startAngle = 0
            /\ a(n).endAngle = FullCircle
            /\ \A i \in 1..n :
                  /\ a(i).data = lastDataPoints[i]
                  /\ (a(i).endAngle - a(i).startAngle) * total
                        = FullCircle * NumOf(lastDataPoints[i].value)
            /\ \A i \in 1..(n - 1) : a(i).endAngle = a(i + 1).startAngle

\* a donut of at least two arcs whose values are positive and ascending
C10_Witness ==
    /\ Updated /\ ~threw /\ AllPositive(lastDataPoints)
    /\ Len(donut.arcs) >= 2
    /\ NumOf(lastDataPoints[1].value) < NumOf(lastDataPoints[2].value)
    /\ donut.arcs[2].datum.startAngle > 0

----------------------------------------------------------------------------
(* C11 .. C14 *)

DefinedValues(points) ==
    {NumOf(points[i].value) : i \in {j \in 1..Len(points) : IsNum(points[j].value)}}

\* the maximum of the defined values, or 1 when there is none or it is zero
ExpectedMaxValue(points) ==
    LET D == DefinedValues(points)
    IN  IF D = {} THEN 1
        ELSE LET top == CHOOSE m \in D : \A x \in D : x <= m
             IN  IF top = 0 THEN 1 ELSE top

AllZero(points) ==
    \A i \in 1..Len(points) : IsNum(points[i].value) /\ NumOf(points[i].value) = 0

\* every value is a number >= 0 and at least one is > 0
NonNegativeWithPositive(points) ==
    /\ \A i \in 1..Len(points) : IsNum(points[i].value) /\ NumOf(points[i].value) >= 0
    /\ \E i \in 1..Len(points) : NumOf(points[i].value) > 0

\* C11: for a non-empty data point list the bar renderer's maxValue is never
\* zero: it is the maximum value, or 1 when that maximum is zero or absent;
\* every painted bar has height (value / maxValue) * chartHeight; when all
\* values are 0 every bar height is 0; for non-negative values with a positive
\* maximum the heights are in the ratio of the values and the largest bar is
\* exactly chartHeight high.
C11_BarHeightsNeverDivideByZero ==
    (Updated /\ lastDataPoints # <<>>) =>
        LET chartHeight == canvasSize[2] - margin.top - margin.bottom
            maxValue    == maxValueOf(lastDataPoints)
            value(i)    == NumOf(lastDataPoints[i].value)
            h(i)        == bars[i].barHeight
        IN  /\ maxValue # 0
            /\ maxValue = ExpectedMaxValue(lastDataPoints)
            /\ \A i \in 1..Len(bars) :
                  /\ h(i).den = maxValue
                  /\ h(i).num = value(i) * chartHeight
            /\ AllZero(lastDataPoints) => \A i \in 1..Len(bars) : h(i).num = 0
            /\ (NonNegativeWithPositive(lastDataPoints) /\ bars # <<>>) =>
                  /\ Len(bars) = Len(lastDataPoints)
                  /\ \E i \in 1..Len(bars) : h(i).num = h(i).den * chartHeight
                  /\ \A i, j \in 1..Len(bars) : h(i).num * value(j) = h(j).num * value(i)

\* two bars were painted for a list whose values are all 0
C11_Witness ==
    /\ Updated /\ ~threw
    /\ Len(lastDataPoints) >= 2 /\ AllZero(lastDataPoints)
    /\ Len(bars) = Len(lastDataPoints)
    /\ bars[1].barHeight = [num |-> 0, den |-> 1]

\* channel n (1 = red, 2 = green, 3 = blue) of a colour
Channel(color, n) == 16 * color[2 * n - 1] + color[2 * n]

WellFormedColor(color) ==
    Len(color) = 6 /\ \A i \in 1..6 : color[i] \in 0..15

\* C12: for a well-formed colour and an integer k, every channel of the
\* result is the input channel plus k, clamped to [0, 255]; and when the +k
\* step clips no channel, adjusting the result by -k gives the colour back.
C12_BrightnessClampedAndInvertible ==
    colorResult # <<>> =>
        LET out     == colorResult[1].adjusted
            back    == colorResult[1].restored
            sum(n)  == Channel(colorArg, n) + amountArg
        IN  /\ WellFormedColor(out)
            /\ \A n \in 1..3 :
                  /\ Channel(out, n) \in 0..255
                  /\ Channel(out, n) =
                        IF sum(n) < 0 THEN 0 ELSE IF sum(n) > 255 THEN 255 ELSE sum(n)
            /\ (\A n \in 1..3 : sum(n) \in 0..255) => back = colorArg

\* a colour was changed by a non-zero k without clipping, and came back
C12_Witness ==
    /\ colorResult # <<>>
    /\ amountArg # 0
    /\ \A n \in 1..3 : Channel(colorArg, n) + amountArg \in 0..255
    /\ colorResult[1].adjusted # colorArg
    /\ colorResult[1].restored = colorArg

\* a path, all but its outer radius
Untouched(arc) == [arc EXCEPT !.outerRadius = 0]

\* what a pointer event on path i must leave alone: every other path, all of
\* path i but its outer radius, the labels, the legend and the data points
OnlyOuterRadiusOf(i) ==
    /\ Len(donut'.arcs) = Len(donut.arcs)
    /\ \A j \in 1..Len(donut.arcs) : j # i => donut'.arcs[j] = donut.arcs[j]
    /\ Untouched(donut'.arcs[i]) = Untouched(donut.arcs[i])
    /\ donut'.labels = donut.labels
    /\ donut'.legend = donut.legend
    /\ lastDataPoints' = lastDataPoints
    /\ bars' = bars

\* the radius of the donut the last update drew
DrawnRadius == (Min(svgSize[1], svgSize[2]) \div 2) - 40

\* C13: a pointer-enter on segment i sets its outer-radius target to
\* radius + 10 and a pointer-leave sets it to radius, whatever it was before;
\* either event leaves every other segment and the data point list unchanged.
C13_HoverChangesOnlyItsSegment ==
    [][\A i \in 1..Len(donut.arcs) :
          /\ MouseOverPath(i) =>
                /\ OnlyOuterRadiusOf(i)
                /\ donut'.arcs[i].outerRadius = DrawnRadius + 10
          /\ MouseOutPath(i) =>
                /\ OnlyOuterRadiusOf(i)
                /\ donut'.arcs[i].outerRadius = DrawnRadius]_vars

\* of two segments the second is entered while the first is at rest
C13_Witness ==
    /\ Len(donut.arcs) >= 2
    /\ donut.arcs[1].outerRadius = DrawnRadius
    /\ donut.arcs[2].outerRadius = DrawnRadius + 10

\* C14: when the last update drew the donut, the donut holds exactly that
\* update's content: as many arcs and as many legend rows as data points, the
\* legend rows in the order of the points, 25 apart, and every arc at the base
\* outer radius.
C14_DonutHoldsLastDrawnContent ==
    "renderSVGDonutChart" \in Range(trace) =>
        LET n == Len(lastDataPoints)
        IN  /\ Len(donut.arcs) = n
            /\ Len(donut.legend) = n
            /\ \A i \in 1..Len(donut.legend) :
                  /\ i <= n
                  /\ donut.legend[i].text.category = lastDataPoints[i].category
                  /\ donut.legend[i].y = (i - 1) * 25
            /\ \A i \in 1..Len(donut.arcs) :
                  /\ i <= n
                  /\ donut.arcs[i].datum.data = lastDataPoints[i]
                  /\ donut.arcs[i].outerRadius = DrawnRadius

====
